---- MODULE Spec2Model ----
(***************************************************************************)
(* Model of DehydratedCrosshair.py: the settings store (SettingsModel),    *)
(* the overlay process supervisor (OverlayController), the atomic JSON     *)
(* writer and the handlers of the control window (App).                    *)
(*                                                                         *)
(* The specifications share the variables:                                 *)
(*   Spec       the application: startup, the handlers, the environment    *)
(*   SpecStore  SettingsModel.save / SettingsModel.load on their own       *)
(*   SpecWrite  atomic_write_json statement by statement, with crashes     *)
(*   SpecRaid   the raid calculator window                                 *)
(*   SpecSession  runs of the application one after the other              *)
(***************************************************************************)
EXTENDS Integers, Sequences, FiniteSets, TLC

VARIABLES
    phase,        \* "init" | "running" | "closed" | "crashed" (App life cycle)
    model,        \* the SettingsModel instance
    proc,         \* OverlayController.proc: 0 is None, else an index of procs
    procs,        \* every overlay process spawned so far: "alive" | "exited"
    exeExists,    \* os.path.exists(overlay_exe_path())
    overlayFile,  \* content of overlay_settings.json
    tmpFile,      \* content of overlay_settings.json.tmp
    settingsFile, \* content of app_settings.json
    label,        \* text shown by btn_toggle
    ev,           \* what the last handler did (see NoEv)
    shutdownLog,  \* the effects of shutdown(), in the order it attempted them
    wpc,          \* position inside atomic_write_json (SpecWrite)
    wData,        \* the data atomic_write_json was called with (SpecWrite)
    wPrev,        \* content of the target when atomic_write_json was called
    savedRec,     \* the record last passed to save() (SpecStore)
    raid,         \* the raid calculator: its three inputs and what it shows
    closeEv       \* what the last on_close did (see NoClose)

vars == <<phase, model, proc, procs, exeExists, overlayFile, tmpFile,
          settingsFile, label, ev, shutdownLog, wpc, wData, wPrev, savedRec, raid, closeEv>>

----------------------------------------------------------------------------
(* Bounds of the model *)

MaxSpawns == 2      \* overlay processes spawned in one run of the model
MaxCount == 4       \* largest count entered in the raid calculator

(* Program constants. Floats are kept in hundredths: FloatOne is 1.0 *)
DefaultSize == 6
DefaultThickness == 2
DefaultOutline == 0
FloatOne == 100
SizeMin == 2
SizeMax == 40
OutlineMax == 8
OpacityMin == 5

----------------------------------------------------------------------------
(* Python / JSON values. json.load maps JSON types one to one to Python    *)
(* types, so one representation serves both: a type tag t, a number n      *)
(* (bool as 0/1, float in hundredths) and a text s.                        *)

JV(t, n, s) == [t |-> t, n |-> n, s |-> s]
Absent == JV("absent", 0, "")
JBool(b) == JV("bool", IF b THEN 1 ELSE 0, "")
JInt(i) == JV("int", i, "")
JFloat(h) == JV("float", h, "")
JNaN == JV("nan", 0, "")
JStr(s) == JV("str", 0, s)
JList(s) == JV("list", 0, s)
JNull == JV("null", 0, "")

(* Text that int() / float() accept, with their values *)
IntLiterals == {"7"}
FloatLiterals == {"7", "0.5"}
IntOfText(s) == CASE s = "7" -> 7 [] OTHER -> 0
FloatOfText(s) == CASE s = "7" -> 7 * FloatOne [] s = "0.5" -> FloatOne \div 2 [] OTHER -> 0

(* bool(x) *)
PyBool(x) ==
    CASE x.t = "bool"  -> x.n = 1
      [] x.t = "int"   -> x.n # 0
      [] x.t = "float" -> x.n # 0
      [] x.t = "nan"   -> TRUE
      [] x.t = "str"   -> x.s # ""
      [] x.t = "list"  -> x.s # "[]"
      [] OTHER         -> FALSE

(* int(x): IntRaises(x) when it raises ValueError / TypeError *)
IntRaises(x) ==
    ~ (x.t \in {"bool", "int", "float"} \/ (x.t = "str" /\ x.s \in IntLiterals))

PyInt(x) ==
    CASE x.t \in {"bool", "int"} -> x.n
      [] x.t = "float" -> IF x.n >= 0 THEN x.n \div FloatOne ELSE -((-x.n) \div FloatOne)
      [] x.t = "str"   -> IntOfText(x.s)
      [] OTHER         -> 0

(* float(x): FloatRaises(x) when it raises *)
FloatRaises(x) ==
    ~ (x.t \in {"bool", "int", "float", "nan"} \/ (x.t = "str" /\ x.s \in FloatLiterals))

PyFloat_Trunc(x) ==
    CASE x.t \in {"bool", "int"} -> JFloat(x.n * FloatOne)
      [] x.t = "float" -> JFloat((x.n \div FloatOne) * FloatOne)
      [] x.t = "nan"   -> JNaN
      [] x.t = "str"   -> JFloat(FloatOfText(x.s))
      [] OTHER         -> JFloat(0)

PyFloat(x) ==
    CASE x.t \in {"bool", "int"} -> JFloat(x.n * FloatOne)
      [] x.t = "float" -> x
      [] x.t = "nan"   -> JNaN
      [] x.t = "str"   -> JFloat(FloatOfText(x.s))
      [] OTHER         -> JFloat(0)

(* Comparison of floats: every comparison with NaN is false *)
FloatLess(a, b) == a.t = "float" /\ b.t = "float" /\ a.n < b.n
(* min(a, b) and max(a, b) of two arguments, as Python computes them: the  *)
(* first argument is kept unless the second compares less (greater)        *)
PyMin(a, b) == IF FloatLess(b, a) THEN b ELSE a
PyMax(a, b) == IF FloatLess(a, b) THEN b ELSE a

----------------------------------------------------------------------------
(* SettingsModel *)

STYLE_CHOICES_UI == {"Dot", "Plus", "Cross"}
COLOR_CHOICES_UI == {"White", "Red", "Green", "Blue"}

Hashable(x) == x.t # "list"

(* STYLE_MAP_TO_JSON.get(style_ui, "dot") *)
StyleGet(x) ==
    IF x.t = "str" THEN
        CASE x.s = "Dot" -> "dot" [] x.s = "Plus" -> "plus" [] x.s = "Cross" -> "cross"
          [] OTHER -> "dot"
    ELSE "dot"

(* COLOR_MAP_TO_JSON.get(color_ui, "white") *)
ColorGet(x) ==
    IF x.t = "str" THEN
        CASE x.s = "White" -> "white" [] x.s = "Red" -> "red"
          [] x.s = "Green" -> "green" [] x.s = "Blue" -> "blue"
          [] OTHER -> "white"
    ELSE "white"

DefaultModel ==
    [enabled |-> FALSE, style_ui |-> JStr("Dot"), size |-> DefaultSize,
     thickness |-> DefaultThickness, outline |-> DefaultOutline,
     color_ui |-> JStr("White"), opacity |-> JFloat(FloatOne), dark_mode |-> TRUE]

(* File contents. kind: "missing", "corrupt" (not JSON: truncated),        *)
(* "nonobject" (JSON, not an object), "object"                             *)
NoData ==
    [enabled |-> Absent, style_ui |-> Absent, size |-> Absent, thickness |-> Absent,
     outline |-> Absent, color_ui |-> Absent, opacity |-> Absent, dark_mode |-> Absent]
FileOf(kind) == [kind |-> kind, data |-> NoData]
ObjectFile(d) == [kind |-> "object", data |-> d]

(* data.get(key, default) *)
Get(v, dflt) == IF v.t = "absent" THEN dflt ELSE v

(* SettingsModel.load: the assignments of lines 79-86 run in order, and an *)
(* exception of int() or float() leaves the earlier ones done              *)
LoadObject(m, d) ==
    LET vSize == Get(d.size, JInt(m.size))
        vThick == Get(d.thickness, JInt(m.thickness))
        vOut == Get(d.outline, JInt(m.outline))
        vOp == Get(d.opacity, m.opacity)
        m2 == [m EXCEPT !.enabled = PyBool(Get(d.enabled, JBool(m.enabled))),
                        !.style_ui = Get(d.style_ui, m.style_ui)]
        m3 == [m2 EXCEPT !.size = PyInt(vSize)]
        m4 == [m3 EXCEPT !.thickness = PyInt(vThick)]
        m5 == [m4 EXCEPT !.outline = PyInt(vOut), !.color_ui = Get(d.color_ui, m.color_ui)]
        m6 == [m5 EXCEPT !.opacity = PyFloat(vOp),
                         !.dark_mode = PyBool(Get(d.dark_mode, JBool(m.dark_mode)))]
    IN  IF IntRaises(vSize) THEN [model |-> m2, raised |-> TRUE]
        ELSE IF IntRaises(vThick) THEN [model |-> m3, raised |-> TRUE]
        ELSE IF IntRaises(vOut) THEN [model |-> m4, raised |-> TRUE]
        ELSE IF FloatRaises(vOp) THEN [model |-> m5, raised |-> TRUE]
        ELSE [model |-> m6, raised |-> FALSE]

Load(m, f) ==
    CASE f.kind = "missing"   -> [model |-> m, raised |-> FALSE]
      [] f.kind = "corrupt"   -> [model |-> m, raised |-> FALSE]
      [] f.kind = "nonobject" -> [model |-> m, raised |-> TRUE]
      [] OTHER                -> LoadObject(m, f.data)

(* The dict SettingsModel.save builds, as json.dump writes it *)
SaveData(m) ==
    ObjectFile([enabled |-> JBool(m.enabled), style_ui |-> m.style_ui,
                size |-> JInt(m.size), thickness |-> JInt(m.thickness),
                outline |-> JInt(m.outline), color_ui |-> m.color_ui,
                opacity |-> PyFloat(m.opacity), dark_mode |-> JBool(m.dark_mode)])

(* SettingsModel.to_overlay_json: a dict lookup with an unhashable key     *)
(* raises TypeError                                                        *)
ProjRaises(m) == ~ Hashable(m.style_ui) \/ ~ Hashable(m.color_ui)

ClampOpacity_None(op) == op

ClampOpacity(op) == PyMax(JFloat(0), PyMin(JFloat(FloatOne), op))

Proj(m) ==
    [kind |-> "object", enabled |-> m.enabled, style |-> StyleGet(m.style_ui),
     size |-> m.size, thickness |-> m.thickness, outline |-> m.outline,
     color |-> ColorGet(m.color_ui), opacity |-> ClampOpacity(m.opacity)]

OverlayFileOf(kind) ==
    [kind |-> kind, enabled |-> FALSE, style |-> "", size |-> 0, thickness |-> 0,
     outline |-> 0, color |-> "", opacity |-> JFloat(0)]
NoOverlayFile == OverlayFileOf("missing")

----------------------------------------------------------------------------
(* atomic_write_json as one step: io is whether open / dump / replace all  *)
(* succeed; when one raises the target keeps its content                   *)
AtomicWriteJson(old, data, io) == IF io THEN data ELSE old

----------------------------------------------------------------------------
(* OverlayController. c is [model, proc, procs, file]                      *)

Ctl(m, p, ps, f) == [model |-> m, proc |-> p, procs |-> ps, file |-> f]

(* self.proc is not None and self.proc.poll() is None *)
HeldAlive(p, ps) == p # 0 /\ ps[p] = "alive"

(* ensure_overlay_running: out is "missing" (FileNotFoundError),           *)
(* "returned" (process alive) or "spawned"                                 *)
EnsureOverlayRunning_AlwaysSpawn(c, exe) ==
    IF ~ exe THEN [c |-> c, out |-> "missing"]
    ELSE [c |-> [c EXCEPT !.procs = Append(c.procs, "alive"),
                          !.proc = Len(c.procs) + 1],
          out |-> "spawned"]

EnsureOverlayRunning(c, exe) ==
    IF ~ exe THEN [c |-> c, out |-> "missing"]
    ELSE IF HeldAlive(c.proc, c.procs) THEN [c |-> c, out |-> "returned"]
    ELSE [c |-> [c EXCEPT !.procs = Append(c.procs, "alive"),
                          !.proc = Len(c.procs) + 1],
          out |-> "spawned"]

(* write_overlay_settings *)
WriteOverlaySettings(c, io) ==
    IF ProjRaises(c.model) THEN [c |-> c, raised |-> TRUE]
    ELSE [c |-> [c EXCEPT !.file = AtomicWriteJson(c.file, Proj(c.model), io)],
          raised |-> ~ io]

(* set_enabled *)
SetEnabled_WriteFirst(c, flag, exe, io) ==
    LET c1 == [c EXCEPT !.model.enabled = flag]
        w == WriteOverlaySettings(c1, io)
        e == IF flag THEN EnsureOverlayRunning(w.c, exe) ELSE [c |-> w.c, out |-> "none"]
    IN  [c |-> e.c, raised |-> w.raised \/ e.out = "missing", ensure |-> e.out]

SetEnabled(c, flag, exe, io) ==
    LET c1 == [c EXCEPT !.model.enabled = flag]
        e == IF flag THEN EnsureOverlayRunning(c1, exe) ELSE [c |-> c1, out |-> "none"]
        w == WriteOverlaySettings(e.c, io)
    IN  IF e.out = "missing" THEN [c |-> c1, raised |-> TRUE, ensure |-> e.out]
        ELSE [c |-> w.c, raised |-> w.raised, ensure |-> e.out]

(* shutdown: both try blocks swallow; log lists what was attempted *)
Shutdown_OneTry(c, io, termOk) ==
    LET c1 == [c EXCEPT !.model.enabled = FALSE]
        w == WriteOverlaySettings(c1, io)
        held == HeldAlive(w.c.proc, w.c.procs)
    IN  IF w.raised THEN [c |-> w.c, raised |-> FALSE, log |-> <<"write_fail">>]
        ELSE IF ~ held THEN [c |-> w.c, raised |-> FALSE, log |-> <<"write_ok">>]
        ELSE IF termOk
             THEN [c |-> [w.c EXCEPT !.procs[w.c.proc] = "exited"], raised |-> FALSE,
                   log |-> <<"write_ok", "terminate_ok">>]
             ELSE [c |-> w.c, raised |-> FALSE, log |-> <<"write_ok", "terminate_fail">>]

Shutdown(c, io, termOk) ==
    LET c1 == [c EXCEPT !.model.enabled = FALSE]
        w == WriteOverlaySettings(c1, io)
        wlog == <<IF w.raised THEN "write_fail" ELSE "write_ok">>
        held == HeldAlive(w.c.proc, w.c.procs)
    IN  IF ~ held THEN [c |-> w.c, raised |-> FALSE, log |-> wlog]
        ELSE IF termOk
             THEN [c |-> [w.c EXCEPT !.procs[w.c.proc] = "exited"], raised |-> FALSE,
                   log |-> Append(wlog, "terminate_ok")]
             ELSE [c |-> w.c, raised |-> FALSE, log |-> Append(wlog, "terminate_fail")]

----------------------------------------------------------------------------
(* App *)

(* _refresh_toggle_text *)
ToggleText(enabled, old) == IF enabled THEN "ON" ELSE "OFF"

(* What the last handler did: op its name, flag the argument it gave       *)
(* set_enabled, raised whether an exception reached the handler's caller   *)
(* or its except clause that reports it, ensure the outcome of             *)
(* ensure_overlay_running ("none": not called), held whether the           *)
(* controller held a live process when the handler began                   *)
Ev(op, flag, raised, ensure, held) ==
    [op |-> op, flag |-> flag, raised |-> raised, ensure |-> ensure, held |-> held]
NoEv == Ev("none", FALSE, FALSE, "none", FALSE)

(* The settings files the application may find at startup *)
Obj(enabled, style, size, opacity) ==
    ObjectFile([NoData EXCEPT !.enabled = enabled, !.style_ui = style,
                              !.size = size, !.opacity = opacity])
StartFiles ==
    { FileOf("missing"), FileOf("corrupt"), FileOf("nonobject"),
      Obj(JBool(TRUE), Absent, Absent, Absent),
      Obj(JBool(TRUE), JStr("Hexagon"), JInt(SizeMax), JFloat(FloatOne + FloatOne \div 2)),
      Obj(JBool(FALSE), JStr("Plus"), JStr("7"), JFloat(-FloatOne)),
      Obj(JStr("yes"), JList("[1]"), JFloat(3 * FloatOne + FloatOne \div 2), JNaN),
      Obj(JBool(TRUE), JStr("Cross"), JStr("big"), JFloat(0)),
      Obj(JBool(TRUE), Absent, JNull, Absent) }

(* What the user picks in the settings window: this model moves the style  *)
(* selector only, the other controls keep the value they were opened with  *)
StyleInputs == {"Cross"}

(* The text a Tk StringVar holds for an initial value *)
TkText(x) ==
    CASE x.t = "str"  -> x
      [] x.t = "list" -> JStr(IF x.s = "[1]" THEN "1" ELSE "")
      [] OTHER        -> JStr("")

(* The raid calculator before its window is opened *)
NoRaid == [struct |-> "", method |-> "", count |-> 0, total_needed |-> 0, sulfur_direct |-> 0,
           gp |-> 0, charcoal |-> 0, sulfur_for_gp |-> 0, sulfur_total |-> 0]

(* closeEv: closed whether on_close has run, saved whether its save()      *)
(* wrote the settings file, was the value of model.enabled when it began   *)
NoClose == [closed |-> FALSE, saved |-> FALSE, was |-> FALSE]

(* savedRec before any save() *)
NoSaved == [has |-> FALSE, rec |-> DefaultModel]

Init ==
    /\ phase = "init"
    /\ model = DefaultModel
    /\ proc = 0
    /\ procs = << >>
    /\ exeExists \in BOOLEAN
    /\ overlayFile \in {NoOverlayFile, Proj(DefaultModel)}
    /\ tmpFile = NoOverlayFile
    /\ settingsFile \in StartFiles
    /\ label = "Toggle Crosshair"
    /\ ev = NoEv
    /\ shutdownLog = << >>
    /\ wpc = "idle"
    /\ wData = NoOverlayFile
    /\ wPrev = NoOverlayFile
    /\ savedRec = NoSaved
    /\ raid = NoRaid
    /\ closeEv = NoClose

(* App.__init__ *)
Startup ==
    /\ phase = "init"
    /\ \E io1 \in BOOLEAN, io2 \in BOOLEAN :
        LET ld == Load(DefaultModel, settingsFile)
            c0 == Ctl(ld.model, 0, procs, overlayFile)
            w1 == WriteOverlaySettings(c0, io1)
            lbl == ToggleText(ld.model.enabled, label)
            e == EnsureOverlayRunning(w1.c, exeExists)
            w2 == WriteOverlaySettings(e.c, io2)
            c == IF ~ ld.model.enabled THEN w1.c
                 ELSE IF e.out = "missing" THEN [w1.c EXCEPT !.model.enabled = FALSE]
                 ELSE IF w2.raised THEN [w2.c EXCEPT !.model.enabled = FALSE]
                 ELSE w2.c
        IN  IF ld.raised
            THEN /\ phase' = "crashed"
                 /\ model' = ld.model
                 /\ ev' = Ev("startup", FALSE, TRUE, "none", FALSE)
                 /\ UNCHANGED <<proc, procs, overlayFile, label>>
            ELSE /\ Len(c.procs) <= MaxSpawns
                 /\ phase' = "running"
                 /\ model' = c.model
                 /\ proc' = c.proc
                 /\ procs' = c.procs
                 /\ overlayFile' = c.file
                 /\ label' = lbl
                 /\ ev' = Ev("startup", FALSE, FALSE,
                             IF ld.model.enabled THEN e.out ELSE "none", FALSE)
    /\ UNCHANGED <<exeExists, tmpFile, settingsFile, shutdownLog, wpc, wData, wPrev, savedRec, raid, closeEv>>

(* App.on_toggle *)
OnToggle ==
    /\ phase = "running"
    /\ \E io \in BOOLEAN :
        LET flag == ~ model.enabled
            r == SetEnabled(Ctl(model, proc, procs, overlayFile), flag, exeExists, io)
        IN  /\ Len(r.c.procs) <= MaxSpawns
            /\ model' = r.c.model
            /\ proc' = r.c.proc
            /\ procs' = r.c.procs
            /\ overlayFile' = r.c.file
            /\ label' = IF r.raised THEN label ELSE ToggleText(r.c.model.enabled, label)
            /\ ev' = Ev("on_toggle", flag, r.raised, r.ensure, HeldAlive(proc, procs))
    /\ UNCHANGED <<phase, exeExists, tmpFile, settingsFile, shutdownLog, wpc, wData, wPrev, savedRec, raid, closeEv>>

(* open_settings.push_to_overlay, called on every change of a control *)
PushToOverlay ==
    /\ phase = "running"
    /\ \E st \in StyleInputs \cup {TkText(model.style_ui).s},
          io \in BOOLEAN :
        LET m == [model EXCEPT !.style_ui = JStr(st),
                               !.color_ui = TkText(model.color_ui),
                               !.opacity = PyFloat(model.opacity)]
            c0 == Ctl(m, proc, procs, overlayFile)
            e == IF m.enabled THEN EnsureOverlayRunning(c0, exeExists)
                 ELSE [c |-> c0, out |-> "none"]
            w == WriteOverlaySettings(e.c, io)
            c == IF e.out = "missing" THEN c0 ELSE w.c
        IN  /\ Len(c.procs) <= MaxSpawns
            /\ model' = c.model
            /\ proc' = c.proc
            /\ procs' = c.procs
            /\ overlayFile' = c.file
            /\ ev' = Ev("push_to_overlay", FALSE, FALSE, e.out, HeldAlive(proc, procs))
    /\ UNCHANGED <<phase, exeExists, tmpFile, settingsFile, label, shutdownLog, wpc, wData, wPrev, savedRec, raid, closeEv>>

(* App.on_save *)
OnSave ==
    /\ phase = "running"
    /\ \E io \in BOOLEAN :
        /\ settingsFile' = AtomicWriteJson(settingsFile, SaveData(model), io)
        /\ ev' = Ev("on_save", FALSE, ~ io, "none", HeldAlive(proc, procs))
    /\ UNCHANGED <<phase, model, proc, procs, exeExists, overlayFile, tmpFile, label,
                   shutdownLog, wpc, wData, wPrev, savedRec, raid, closeEv>>

(* App.toggle_darkmode; _apply_theme ends with _refresh_toggle_text *)
ToggleDarkmode ==
    /\ phase = "running"
    /\ model' = [model EXCEPT !.dark_mode = ~ model.dark_mode]
    /\ label' = ToggleText(model.enabled, label)
    /\ ev' = Ev("toggle_darkmode", FALSE, FALSE, "none", HeldAlive(proc, procs))
    /\ UNCHANGED <<phase, proc, procs, exeExists, overlayFile, tmpFile, settingsFile,
                   shutdownLog, wpc, wData, wPrev, savedRec, raid, closeEv>>

(* App.on_close *)
OnClose_ShutdownFirst ==
    /\ phase = "running"
    /\ \E ioSave \in BOOLEAN, io \in BOOLEAN, termOk \in BOOLEAN :
        LET r == Shutdown(Ctl(model, proc, procs, overlayFile), io, termOk)
        IN  /\ settingsFile' = AtomicWriteJson(settingsFile, SaveData(r.c.model), ioSave)
            /\ model' = r.c.model
            /\ proc' = r.c.proc
            /\ procs' = r.c.procs
            /\ overlayFile' = r.c.file
            /\ shutdownLog' = r.log
            /\ ev' = Ev("on_close", FALSE, r.raised, "none", HeldAlive(proc, procs))
            /\ closeEv' = [closed |-> TRUE, saved |-> ioSave, was |-> model.enabled]
    /\ phase' = "closed"
    /\ UNCHANGED <<exeExists, tmpFile, label, wpc, wData, wPrev, savedRec, raid>>

OnClose ==
    /\ phase = "running"
    /\ \E ioSave \in BOOLEAN, io \in BOOLEAN, termOk \in BOOLEAN :
        LET r == Shutdown(Ctl(model, proc, procs, overlayFile), io, termOk)
        IN  /\ settingsFile' = AtomicWriteJson(settingsFile, SaveData(model), ioSave)
            /\ model' = r.c.model
            /\ proc' = r.c.proc
            /\ procs' = r.c.procs
            /\ overlayFile' = r.c.file
            /\ shutdownLog' = r.log
            /\ ev' = Ev("on_close", FALSE, r.raised, "none", HeldAlive(proc, procs))
            /\ closeEv' = [closed |-> TRUE, saved |-> ioSave, was |-> model.enabled]
    /\ phase' = "closed"
    /\ UNCHANGED <<exeExists, tmpFile, label, wpc, wData, wPrev, savedRec, raid>>

(* The environment: the overlay process exits on its own; the executable   *)
(* is removed or put back                                                  *)
ProcExit ==
    /\ phase = "running"
    /\ HeldAlive(proc, procs)
    /\ procs' = [procs EXCEPT ![proc] = "exited"]
    /\ UNCHANGED <<phase, model, proc, exeExists, overlayFile, tmpFile, settingsFile, label,
                   ev, shutdownLog, wpc, wData, wPrev, savedRec, raid, closeEv>>

ExeChange ==
    /\ phase = "running"
    /\ exeExists' = ~ exeExists
    /\ UNCHANGED <<phase, model, proc, procs, overlayFile, tmpFile, settingsFile, label,
                   ev, shutdownLog, wpc, wData, wPrev, savedRec, raid, closeEv>>

Next ==
    \/ Startup
    \/ OnToggle
    \/ PushToOverlay
    \/ OnSave
    \/ ToggleDarkmode
    \/ OnClose
    \/ ProcExit
    \/ ExeChange

Spec == Init /\ [][Next]_vars

----------------------------------------------------------------------------
(* SpecSession: the application is closed and started again. The files,    *)
(* the executable and the processes spawned stay as the last run left      *)
(* them; main() builds a new App, so a new SettingsModel and a new         *)
(* OverlayController. In this specification the user only toggles the      *)
(* crosshair and closes the window.                                        *)
Restart ==
    /\ phase = "closed"
    /\ phase' = "init"
    /\ model' = DefaultModel
    /\ proc' = 0
    /\ label' = "Toggle Crosshair"
    /\ ev' = NoEv
    /\ shutdownLog' = << >>
    /\ UNCHANGED <<procs, exeExists, overlayFile, tmpFile, settingsFile, wpc, wData, wPrev,
                   savedRec, raid, closeEv>>

NextSession ==
    \/ Startup
    \/ OnToggle
    \/ OnClose
    \/ Restart
    \/ ProcExit
    \/ ExeChange

SpecSession == Init /\ [][NextSession]_vars

----------------------------------------------------------------------------
(* SpecStore: SettingsModel.save and SettingsModel.load on their own.      *)
(* The record starts with any valid field values; load() is called on a    *)
(* fresh SettingsModel(), as App.__init__ does.                            *)

SizeVals == {SizeMin, DefaultSize, SizeMax}
ThicknessVals == {DefaultThickness, DefaultThickness + 1}
OutlineVals == {DefaultOutline, OutlineMax}
OpacityVals == {JFloat(0), JFloat(OpacityMin), JFloat(FloatOne)}

ValidRecords ==
    [enabled : BOOLEAN, style_ui : {JStr(s) : s \in STYLE_CHOICES_UI}, size : SizeVals,
     thickness : ThicknessVals, outline : OutlineVals,
     color_ui : {JStr(s) : s \in COLOR_CHOICES_UI}, opacity : OpacityVals,
     dark_mode : BOOLEAN]

InitStore ==
    /\ phase = "store"
    /\ model \in ValidRecords
    /\ proc = 0
    /\ procs = << >>
    /\ exeExists = FALSE
    /\ overlayFile = NoOverlayFile
    /\ tmpFile = NoOverlayFile
    /\ settingsFile \in StartFiles
    /\ label = "Toggle Crosshair"
    /\ ev = NoEv
    /\ shutdownLog = << >>
    /\ wpc = "idle"
    /\ wData = NoOverlayFile
    /\ wPrev = NoOverlayFile
    /\ savedRec = NoSaved
    /\ raid = NoRaid
    /\ closeEv = NoClose

(* SettingsModel.save *)
StoreSave ==
    /\ phase = "store"
    /\ \E io \in BOOLEAN :
        /\ settingsFile' = AtomicWriteJson(settingsFile, SaveData(model), io)
        /\ savedRec' = IF io THEN [has |-> TRUE, rec |-> model] ELSE savedRec
        /\ ev' = Ev("save", FALSE, ~ io, "none", FALSE)
    /\ UNCHANGED <<phase, model, proc, procs, exeExists, overlayFile, tmpFile, label,
                   shutdownLog, wpc, wData, wPrev, raid, closeEv>>

(* SettingsModel().load() *)
StoreLoad ==
    /\ phase = "store"
    /\ LET ld == Load(DefaultModel, settingsFile)
       IN  /\ model' = ld.model
           /\ ev' = Ev("load", FALSE, ld.raised, "none", FALSE)
    /\ UNCHANGED <<phase, proc, procs, exeExists, overlayFile, tmpFile, settingsFile, label,
                   shutdownLog, wpc, wData, wPrev, savedRec, raid, closeEv>>

NextStore ==
    \/ StoreSave
    \/ StoreLoad

SpecStore == InitStore /\ [][NextStore]_vars

----------------------------------------------------------------------------
(* SpecWrite: atomic_write_json(overlay_json_path(), data) statement by    *)
(* statement. Execution may stop (WCrash) before any statement; a          *)
(* statement may raise.                                                    *)

WriteContents ==
    { Proj(DefaultModel),
      Proj([DefaultModel EXCEPT !.enabled = TRUE]),
      Proj([DefaultModel EXCEPT !.enabled = TRUE, !.style_ui = JStr("Cross")]),
      Proj([DefaultModel EXCEPT !.opacity = JFloat(OpacityMin), !.size = SizeMax]) }

(* A file holding the beginning of a JSON text *)
PartialFile == OverlayFileOf("partial")

InitWrite ==
    /\ phase = "write"
    /\ model = DefaultModel
    /\ proc = 0
    /\ procs = << >>
    /\ exeExists = FALSE
    /\ overlayFile \in WriteContents \cup {NoOverlayFile}
    /\ tmpFile = NoOverlayFile
    /\ settingsFile = FileOf("missing")
    /\ label = "Toggle Crosshair"
    /\ ev = NoEv
    /\ shutdownLog = << >>
    /\ wpc = "idle"
    /\ wData = NoOverlayFile
    /\ wPrev = overlayFile
    /\ savedRec = NoSaved
    /\ raid = NoRaid
    /\ closeEv = NoClose

WUnchanged ==
    UNCHANGED <<phase, model, proc, procs, exeExists, settingsFile, label, ev,
                shutdownLog, savedRec, raid, closeEv>>

(* the call: tmp = path + ".tmp" *)
WCall ==
    /\ phase = "write" /\ wpc = "idle"
    /\ \E d \in WriteContents : wData' = d
    /\ wPrev' = overlayFile
    /\ wpc' = "open"
    /\ UNCHANGED <<overlayFile, tmpFile>>
    /\ WUnchanged

(* open(tmp, "w") truncates the temporary file *)
WOpen_InPlace ==
    /\ phase = "write" /\ wpc = "open"
    /\ \/ wpc' = "dump" /\ overlayFile' = PartialFile /\ UNCHANGED tmpFile
       \/ wpc' = "raised" /\ UNCHANGED <<overlayFile, tmpFile>>
    /\ UNCHANGED <<wData, wPrev>>
    /\ WUnchanged

WOpen ==
    /\ phase = "write" /\ wpc = "open"
    /\ \/ wpc' = "dump" /\ tmpFile' = PartialFile
       \/ wpc' = "raised" /\ UNCHANGED tmpFile
    /\ UNCHANGED <<overlayFile, wData, wPrev>>
    /\ WUnchanged

(* json.dump(data, f, indent=2) and the close of the with block *)
WDump ==
    /\ phase = "write" /\ wpc = "dump"
    /\ \/ wpc' = "replace" /\ tmpFile' = wData
       \/ wpc' = "raised" /\ UNCHANGED tmpFile
    /\ UNCHANGED <<overlayFile, wData, wPrev>>
    /\ WUnchanged

(* os.replace(tmp, path) *)
WReplace ==
    /\ phase = "write" /\ wpc = "replace"
    /\ \/ wpc' = "done" /\ overlayFile' = tmpFile /\ tmpFile' = NoOverlayFile
       \/ wpc' = "raised" /\ UNCHANGED <<overlayFile, tmpFile>>
    /\ UNCHANGED <<wData, wPrev>>
    /\ WUnchanged

(* the call returns or its exception reaches the caller *)
WReturn ==
    /\ phase = "write" /\ wpc \in {"done", "raised"}
    /\ wpc' = "idle"
    /\ UNCHANGED <<overlayFile, tmpFile, wData, wPrev>>
    /\ WUnchanged

(* execution stops inside the call *)
WCrash ==
    /\ phase = "write" /\ wpc \in {"open", "dump", "replace"}
    /\ wpc' = "crashed"
    /\ UNCHANGED <<overlayFile, tmpFile, wData, wPrev>>
    /\ WUnchanged

(* the application is started again after a crash *)
WRestart ==
    /\ phase = "write" /\ wpc = "crashed"
    /\ wpc' = "idle"
    /\ UNCHANGED <<overlayFile, tmpFile, wData, wPrev>>
    /\ WUnchanged

NextWrite ==
    \/ WCall
    \/ WOpen
    \/ WDump
    \/ WReplace
    \/ WReturn
    \/ WCrash
    \/ WRestart

SpecWrite == InitWrite /\ [][NextWrite]_vars

----------------------------------------------------------------------------
(* SpecRaid: App.open_raid_calculator. refresh() runs when the window      *)
(* opens and on every write of one of its three variables.                 *)

RAID_TABLE ==
    ("Wood Wall" :> ("Rockets" :> 2 @@ "C4" :> 1 @@ "Satchels" :> 4 @@ "Explosive Ammo" :> 49)) @@
    ("Stone Wall" :> ("Rockets" :> 4 @@ "C4" :> 2 @@ "Satchels" :> 10 @@ "Explosive Ammo" :> 185)) @@
    ("Metal Wall" :> ("Rockets" :> 8 @@ "C4" :> 4 @@ "Satchels" :> 23 @@ "Explosive Ammo" :> 400)) @@
    ("Armored Wall" :> ("Rockets" :> 15 @@ "C4" :> 8 @@ "Satchels" :> 46 @@ "Explosive Ammo" :> 799)) @@
    ("Sheet Door" :> ("Rockets" :> 2 @@ "C4" :> 1 @@ "Satchels" :> 4 @@ "Explosive Ammo" :> 63)) @@
    ("Garage Door" :> ("Rockets" :> 3 @@ "C4" :> 2 @@ "Satchels" :> 9 @@ "Explosive Ammo" :> 150)) @@
    ("Armored Door" :> ("Rockets" :> 5 @@ "C4" :> 3 @@ "Satchels" :> 15 @@ "Explosive Ammo" :> 280))

COSTS ==
    ("Rockets" :> [sulfur |-> 1400, gp |-> 650]) @@
    ("C4" :> [sulfur |-> 2200, gp |-> 1000]) @@
    ("Satchels" :> [sulfur |-> 480, gp |-> 240]) @@
    ("Explosive Ammo" :> [sulfur |-> 25, gp |-> 10])

Structures == DOMAIN RAID_TABLE
Methods == DOMAIN COSTS

(* self._RAID_TABLE.get(struct, {}).get(method, 0) *)
PerPiece(struct, method) ==
    IF struct \in DOMAIN RAID_TABLE /\ method \in DOMAIN RAID_TABLE[struct]
    THEN RAID_TABLE[struct][method] ELSE 0

(* self._COSTS.get(method, {"sulfur": 0, "gp": 0}) *)
CostOf(method) ==
    IF method \in DOMAIN COSTS THEN COSTS[method] ELSE [sulfur |-> 0, gp |-> 0]

(* refresh: what the calculator shows for the three inputs *)
Refresh_GpOnce(struct, method, count) ==
    LET cnt == IF count > 1 THEN count ELSE 1
        total_needed == PerPiece(struct, method) * cnt
        cost == CostOf(method)
        sulfur_direct == cost.sulfur * total_needed
        gp == cost.gp * total_needed
    IN  [struct |-> struct, method |-> method, count |-> cnt,
         total_needed |-> total_needed, sulfur_direct |-> sulfur_direct, gp |-> gp,
         charcoal |-> gp, sulfur_for_gp |-> gp, sulfur_total |-> sulfur_direct + gp]

Refresh(struct, method, count) ==
    LET cnt == IF count > 1 THEN count ELSE 1
        per_piece == PerPiece(struct, method)
        total_needed == per_piece * cnt
        cost == CostOf(method)
        sulfur_direct == cost.sulfur * total_needed
        gp == cost.gp * total_needed
        sulfur_for_gp == gp * 2
        charcoal == gp
        sulfur_total == sulfur_direct + sulfur_for_gp
    IN  [struct |-> struct, method |-> method, count |-> cnt,
         total_needed |-> total_needed, sulfur_direct |-> sulfur_direct, gp |-> gp,
         charcoal |-> charcoal, sulfur_for_gp |-> sulfur_for_gp,
         sulfur_total |-> sulfur_total]

InitRaid ==
    /\ phase = "raid"
    /\ model = DefaultModel
    /\ proc = 0
    /\ procs = << >>
    /\ exeExists = FALSE
    /\ overlayFile = NoOverlayFile
    /\ tmpFile = NoOverlayFile
    /\ settingsFile = FileOf("missing")
    /\ label = "Toggle Crosshair"
    /\ ev = NoEv
    /\ shutdownLog = << >>
    /\ wpc = "idle"
    /\ wData = NoOverlayFile
    /\ wPrev = NoOverlayFile
    /\ savedRec = NoSaved
    /\ raid = NoRaid
    /\ closeEv = NoClose

RaidUnchanged ==
    UNCHANGED <<phase, model, proc, procs, exeExists, overlayFile, tmpFile, settingsFile,
                label, ev, shutdownLog, wpc, wData, wPrev, savedRec, closeEv>>

(* open_raid_calculator: the first structure, Rockets, count 1 *)
RaidOpen ==
    /\ phase = "raid" /\ raid = NoRaid
    /\ raid' = Refresh("Wood Wall", "Rockets", 1)
    /\ RaidUnchanged

(* the user picks a structure *)
RaidSetStructure ==
    /\ phase = "raid" /\ raid # NoRaid
    /\ \E st \in Structures : raid' = Refresh(st, raid.method, raid.count)
    /\ RaidUnchanged

(* the user picks a method *)
RaidSetMethod ==
    /\ phase = "raid" /\ raid # NoRaid
    /\ \E me \in Methods : raid' = Refresh(raid.struct, me, raid.count)
    /\ RaidUnchanged

(* the user enters a count *)
RaidSetCount ==
    /\ phase = "raid" /\ raid # NoRaid
    /\ \E n \in 0..MaxCount : raid' = Refresh(raid.struct, raid.method, n)
    /\ RaidUnchanged

NextRaid ==
    \/ RaidOpen
    \/ RaidSetStructure
    \/ RaidSetMethod
    \/ RaidSetCount

SpecRaid == InitRaid /\ [][NextRaid]_vars

----------------------------------------------------------------------------
(* Claims *)

StartedPhases == {"running", "closed"}
HasContent(f) == f.kind = "object"

(* C1: once the application has started, the overlay configuration file    *)
(* never holds enabled:true while the controller has no process handle.    *)
C1_NeverEnabledWithoutProcess ==
    phase \in StartedPhases => ~ (HasContent(overlayFile) /\ overlayFile.enabled /\ proc = 0)

(* C2, as claimed: after set_enabled(flag), also when it raised because    *)
(* the executable is missing, model.enabled is flag and the file's enabled *)
(* field equals model.enabled.                                             *)
C2_AlwaysWrites ==
    (ev.op = "on_toggle" /\ (ev.raised => ev.ensure = "missing"))
        => /\ model.enabled = ev.flag
           /\ HasContent(overlayFile)
           /\ overlayFile.enabled = model.enabled

(* C2, amended: set_enabled(flag) sets model.enabled to flag; when it      *)
(* returns without raising the file holds the projection of the model;     *)
(* when it raises the file keeps the content it had before the call.       *)
C2_WritesUnlessRaised ==
    /\ [](ev.op = "on_toggle"
            => /\ model.enabled = ev.flag
               /\ ~ ev.raised => (overlayFile = Proj(model) /\ overlayFile.enabled = ev.flag))
    /\ [][(ev'.op = "on_toggle" /\ ev'.raised) => overlayFile' = overlayFile]_vars

C2_Witness ==
    /\ ev.op = "on_toggle" /\ ev.raised /\ ev.ensure = "missing"
    /\ model.enabled /\ HasContent(overlayFile) /\ ~ overlayFile.enabled

(* C3: the target of atomic_write_json never holds a partial content; it   *)
(* holds the complete previous content until the replace, also when        *)
(* execution stops or a statement raises, and the complete new content     *)
(* after the replace.                                                      *)
C3_TargetNeverPartial ==
    phase = "write"
        => /\ overlayFile.kind # "partial"
           /\ wpc \in {"open", "dump", "replace", "raised", "crashed"} => overlayFile = wPrev
           /\ wpc = "done" => overlayFile = wData

C3_Witness ==
    /\ phase = "write" /\ wpc = "crashed"
    /\ tmpFile.kind = "partial"
    /\ HasContent(overlayFile) /\ overlayFile # wData

(* C4: a step that begins with a live held process spawns nothing and      *)
(* leaves the handle unchanged; a spawn happens only when no live process  *)
(* is held; at most one spawned process is alive.                          *)
LiveProcs == {i \in DOMAIN procs : procs[i] = "alive"}
C4_NoSecondProcess ==
    /\ [](Cardinality(LiveProcs) <= 1)
    /\ [](ev.ensure = "spawned" => ~ ev.held)
    /\ [][HeldAlive(proc, procs) => (proc' = proc /\ Len(procs') = Len(procs))]_vars

C4_Witness ==
    /\ ev.ensure = "returned" /\ ev.held
    /\ Len(procs) = 1 /\ HeldAlive(proc, procs)

(* C5: ensure_overlay_running fails with the missing-executable error only *)
(* when no live process is held.                                           *)
C5_AliveCheckedFirst == ~ (ev.ensure = "missing" /\ ev.held)

(* C6: shutdown() never raises, leaves model.enabled false, attempts the   *)
(* write of enabled:false first and the terminate request after it, and    *)
(* requests termination exactly when a live process is held, whether or    *)
(* not the write failed.                                                   *)
IsWrite(x) == x \in {"write_ok", "write_fail"}
IsTerminate(x) == x \in {"terminate_ok", "terminate_fail"}
C6_ShutdownOrder ==
    phase = "closed"
        => /\ ~ ev.raised
           /\ ~ model.enabled
           /\ Len(shutdownLog) >= 1 /\ IsWrite(shutdownLog[1])
           /\ shutdownLog[1] = "write_ok" => (overlayFile = Proj(model) /\ ~ overlayFile.enabled)
           /\ \A i \in DOMAIN shutdownLog : IsTerminate(shutdownLog[i]) => i = 2
           /\ ev.held <=> (Len(shutdownLog) = 2 /\ IsTerminate(shutdownLog[2]))

C6_Witness ==
    /\ phase = "closed"
    /\ shutdownLog = <<"write_fail", "terminate_ok">>
    /\ procs[proc] = "exited"

(* C7: load() raises nothing and leaves every field at its default when    *)
(* the settings file is missing, unreadable, truncated, not an object, or  *)
(* holds, where a number is expected, a value that is no number.           *)
Present(v) == v.t # "absent"
WrongType(d) ==
    \/ Present(d.size) /\ IntRaises(d.size)
    \/ Present(d.thickness) /\ IntRaises(d.thickness)
    \/ Present(d.outline) /\ IntRaises(d.outline)
    \/ Present(d.opacity) /\ FloatRaises(d.opacity)
InvalidFile(f) == f.kind # "object" \/ WrongType(f.data)
C7_DefaultsOnInvalid ==
    (ev.op = "load" /\ InvalidFile(settingsFile)) => (~ ev.raised /\ model = DefaultModel)

(* C8: save() of a record with valid field values followed by load() into  *)
(* a fresh default record yields the saved record, field for field.        *)
C8_RoundTrip ==
    (ev.op = "load" /\ savedRec.has /\ savedRec.rec \in ValidRecords)
        => (~ ev.raised /\ model = savedRec.rec)

C8_Witness ==
    /\ ev.op = "load" /\ savedRec.has
    /\ savedRec.rec.opacity = JFloat(OpacityMin)
    /\ savedRec.rec.enabled /\ ~ savedRec.rec.dark_mode
    /\ savedRec.rec.style_ui = JStr("Cross")
    /\ savedRec.rec.size = SizeMax

C10_LabelReflectsEnabled ==
    (phase = "running" /\ ev.op \in {"startup", "on_toggle"})
        => (label = IF model.enabled THEN "ON" ELSE "OFF")

(* C11: for every structure, method and count >= 1 the calculator shows    *)
(* total_needed = table[structure][method] * count, sulfur_direct =        *)
(* sulfur cost * total_needed, gp = gp cost * total_needed, sulfur_for_gp  *)
(* = 2 * gp and sulfur_total = sulfur_direct + sulfur_for_gp; Stone Wall   *)
(* by Rockets, count 3, shows 12, 16800, 7800, 15600 and 32400.            *)
C11_RaidTotals ==
    raid # NoRaid
        => /\ raid.struct \in Structures /\ raid.method \in Methods /\ raid.count >= 1
           /\ raid.total_needed = RAID_TABLE[raid.struct][raid.method] * raid.count
           /\ raid.sulfur_direct = COSTS[raid.method].sulfur * raid.total_needed
           /\ raid.gp = COSTS[raid.method].gp * raid.total_needed
           /\ raid.sulfur_for_gp = 2 * raid.gp
           /\ raid.sulfur_total = raid.sulfur_direct + raid.sulfur_for_gp
           /\ (raid.struct = "Stone Wall" /\ raid.method = "Rockets" /\ raid.count = 3)
                => /\ raid.total_needed = 12
                   /\ raid.sulfur_direct = 16800
                   /\ raid.gp = 7800
                   /\ raid.sulfur_for_gp = 15600
                   /\ raid.sulfur_total = 32400

C11_Witness ==
    /\ raid.struct = "Stone Wall" /\ raid.method = "Rockets" /\ raid.count = 3
    /\ raid.sulfur_total = 32400

====
